---- MODULE Spec2Model ----
(***************************************************************************)
(* Model of src/components/hasse-diagram-generator.tsx: the poset builder  *)
(* (parseInput, generateDivisibilityPoset), the closure and reduction      *)
(* engines (computeTransitiveClosure, computeHasseDiagram with its nested  *)
(* computeLevel), the layout engine (computeLayout) and the handlers of    *)
(* the React component that drive them.                                    *)
(*                                                                         *)
(* A JavaScript string is a sequence of one-character strings, so that     *)
(* split, trim, the two relation patterns, parseInt, toString and the      *)
(* template literals are computed character by character.  A JavaScript    *)
(* number is a record [k, v]: k is "number" (v the integer), "NaN",        *)
(* "-Infinity" or "undefined".  A nullable value is a sequence of length   *)
(* at most one: Null, or Some(value).                                      *)
(***************************************************************************)
EXTENDS Integers, Sequences, FiniteSets, TLC

VARIABLES
    elements,             \* useState<string>: the "Elements" input field
    relations,            \* useState<string>: the "Relations" textarea
    divisibilityNumbers,  \* useState<string>: the "Numbers" input field
    diagramData,          \* useState<DiagramData | null>
    error,                \* useState<string | null>
    layoutType,           \* useState<string>, read by computeLayout
    levelHeight,          \* useState<number>, read by computeLayout
    uncaught,             \* TRUE when the last handler let an exception escape
    pc,                   \* position of a direct call sequence of the core functions
    posetData,            \* PosetData | null: the poset handed to the core functions
    transitiveClosure,    \* result of computeTransitiveClosure(posetData)
    diagram,              \* result of computeHasseDiagram(posetData)
    reduced,              \* result of computeHasseDiagram on the edges of diagram
    layouted,             \* result of computeLayout(diagram)
    canvas,               \* what the drawing effect last painted, Null before
    levelRun              \* a running level computation of computeHasseDiagram: its
                          \* locals and the stack of computeLevel calls; Null otherwise

vars == <<elements, relations, divisibilityNumbers, diagramData, error, layoutType,
          levelHeight, uncaught, pc, posetData, transitiveClosure, diagram, reduced,
          layouted, canvas, levelRun>>

uiVars == <<elements, relations, divisibilityNumbers, diagramData, error, uncaught, canvas>>
callVars == <<pc, posetData, transitiveClosure, diagram, reduced, layouted, levelRun>>

----------------------------------------------------------------------------
(* Nullable values, sequences and sets.                                    *)

Null == <<>>
Some(v) == <<v>>
Get(o) == o[1]

SetMin(S) == CHOOSE x \in S : \A y \in S : x <= y
SetMax(S) == CHOOSE x \in S : \A y \in S : x >= y
Range(s) == {s[i] : i \in 1..Len(s)}

\* Array.prototype.includes
Includes(s, x) == \E i \in 1..Len(s) : s[i] = x

\* Array.prototype.findIndex(n => n.id === id), 1-based; 0 stands for -1
FindIndex(nodes, id) ==
    LET hit == {i \in 1..Len(nodes) : nodes[i].id = id}
    IN  IF hit = {} THEN 0 ELSE SetMin(hit)

\* All sequences over S of length at most n
SeqsUpTo(S, n) == UNION {[1..m -> S] : m \in 0..n}

----------------------------------------------------------------------------
(* JavaScript numbers.                                                     *)

Num(n) == [k |-> "number", v |-> n]
NaN == [k |-> "NaN", v |-> 0]
NegInfinity == [k |-> "-Infinity", v |-> 0]
Undefined == [k |-> "undefined", v |-> 0]
IsNum(x) == x.k = "number"

\* Variant with a slip: the level of a predecessor is taken without the + 1
PlusNothing(x) == IF IsNum(x) THEN x ELSE NaN

\* x + 1 for x a number, NaN or undefined (undefined + 1 is NaN)
PlusOne(x) == IF IsNum(x) THEN Num(x.v + 1) ELSE NaN

\* Variant with a slip: the later operand wins, whichever is larger
MathMaxLast(x, y) ==
    IF x.k = "NaN" \/ y.k = "NaN" \/ x.k = "undefined" \/ y.k = "undefined" THEN NaN
    ELSE y

\* Math.max(x, y) for x, y a number, NaN or -Infinity: NaN if either is NaN
MathMax(x, y) ==
    IF x.k = "NaN" \/ y.k = "NaN" \/ x.k = "undefined" \/ y.k = "undefined" THEN NaN
    ELSE IF x.k = "-Infinity" THEN y
    ELSE IF y.k = "-Infinity" THEN x
    ELSE IF x.v >= y.v THEN x ELSE y

\* Variant with a slip: < in place of <=
LessThan(x, y) ==
    IF x.k = "NaN" \/ y.k = "NaN" \/ x.k = "undefined" \/ y.k = "undefined" THEN FALSE
    ELSE IF x.k = "-Infinity" THEN y.k # "-Infinity"
    ELSE IF y.k = "-Infinity" THEN FALSE
    ELSE x.v < y.v

\* x <= y as JavaScript compares: false when either side is NaN
LessEq(x, y) ==
    IF x.k = "NaN" \/ y.k = "NaN" \/ x.k = "undefined" \/ y.k = "undefined" THEN FALSE
    ELSE IF x.k = "-Infinity" THEN TRUE
    ELSE IF y.k = "-Infinity" THEN FALSE
    ELSE x.v <= y.v

\* x === y on numbers: NaN equals nothing
StrictEq(x, y) == IsNum(x) /\ IsNum(y) /\ x.v = y.v

----------------------------------------------------------------------------
(* JavaScript strings.                                                     *)

IsSpace(c) == c \in {" ", "\t"}

\* String.prototype.trim
Trim(s) ==
    LET ink == {i \in 1..Len(s) : ~IsSpace(s[i])}
    IN  IF ink = {} THEN <<>> ELSE SubSeq(s, SetMin(ink), SetMax(ink))

\* String.prototype.split(sep) for a one-character separator
RECURSIVE Split(_, _)
Split(s, sep) ==
    LET at == {i \in 1..Len(s) : s[i] = sep}
    IN  IF at = {} THEN <<s>>
        ELSE <<SubSeq(s, 1, SetMin(at) - 1)>> \o Split(SubSeq(s, SetMin(at) + 1, Len(s)), sep)

\* Array.prototype.join(sep)
RECURSIVE Join(_, _)
Join(parts, sep) ==
    IF Len(parts) = 0 THEN <<>>
    ELSE IF Len(parts) = 1 THEN parts[1]
    ELSE parts[1] \o sep \o Join(Tail(parts), sep)

NonEmpty(s) == Len(s) > 0
TrimAll(parts) == [i \in 1..Len(parts) |-> Trim(parts[i])]

\* The template literal `${i},${j}` of the closure's keys
Key(i, j) == i \o <<",">> \o j

----------------------------------------------------------------------------
(* Closure engine: computeTransitiveClosure.                               *)
(* A poset is [elements |-> sequence of ids, relations |-> sequence of     *)
(* pairs <<a, b>>], a < b.                                                 *)

\* const adj = {}; for (const element of elements) adj[element] = new Set()
EmptyAdj(els) == [e \in Range(els) |-> {}]

\* for (const [a, b] of relations) adj[a].add(b)
RECURSIVE FillAdj(_, _, _)
FillAdj(adj, rels, n) ==
    IF n > Len(rels) THEN adj
    ELSE FillAdj([adj EXCEPT ![rels[n][1]] = @ \cup {rels[n][2]}], rels, n + 1)

\* Variant with a slip: the first element is read without a check that there
\* is one, which throws for an empty element list
ClosureThrowsOnEmpty(poset) ==
    \/ Len(poset.elements) = 0
    \/ \E n \in 1..Len(poset.relations) : ~Includes(poset.elements, poset.relations[n][1])

\* adj[a] is undefined for an a outside the element list: adj[a].add(b) throws
ClosureThrows(poset) ==
    \E n \in 1..Len(poset.relations) : ~Includes(poset.elements, poset.relations[n][1])

\* The triple loop of the Floyd-Warshall pass, innermost first:
\*   for (const j of elements) if (adj[i].has(k) && adj[k].has(j)) adj[i].add(j)
\* (each loop reads adj before it goes on, which keeps the depth of TLC's
\* evaluation linear in the number of elements)
RECURSIVE ForJ(_, _, _, _, _)
ForJ(adj, els, k, i, jx) ==
    IF jx > Len(els) THEN adj
    ELSE IF els[k] \in adj[els[i]] /\ els[jx] \in adj[els[k]]
         THEN ForJ([adj EXCEPT ![els[i]] = @ \cup {els[jx]}], els, k, i, jx + 1)
         ELSE ForJ(adj, els, k, i, jx + 1)

\* for (const i of elements)
RECURSIVE ForI(_, _, _, _)
ForI(adj, els, k, ix) ==
    IF DOMAIN adj = {} \/ ix > Len(els) THEN adj
    ELSE ForI(ForJ(adj, els, k, ix, 1), els, k, ix + 1)

\* Variant with a slip: the three loops nested i, j, k, with k innermost
RECURSIVE LoopIJK(_, _, _)
LoopIJK(adj, els, t) ==
    LET n == Len(els)
        i == els[(t \div (n * n)) + 1]
        j == els[((t \div n) % n) + 1]
        k == els[(t % n) + 1]
    IN  IF DOMAIN adj = {} \/ t >= n * n * n THEN adj
        ELSE LoopIJK(IF k \in adj[i] /\ j \in adj[k] THEN [adj EXCEPT ![i] = @ \cup {j}]
                     ELSE adj,
                     els, t + 1)
ForKInnermost(adj, els, kx) == LoopIJK(adj, els, 0)

\* for (const k of elements)
RECURSIVE ForK(_, _, _)
ForK(adj, els, kx) ==
    IF DOMAIN adj = {} \/ kx > Len(els) THEN adj
    ELSE ForK(ForI(adj, els, kx, 1), els, kx + 1)

\* The Set<string> of keys `${i},${j}`
computeTransitiveClosure(poset) ==
    LET adj == ForK(FillAdj(EmptyAdj(poset.elements), poset.relations, 1),
                    poset.elements, 1)
    IN  UNION {{Key(i, j) : j \in adj[i]} : i \in Range(poset.elements)}

----------------------------------------------------------------------------
(* Reduction engine: computeHasseDiagram and its nested computeLevel.      *)

\* Variant with a slip: c is not required to differ from a and b
IsDirectAnyThird(r, els, closure) ==
    ~\E n \in 1..Len(els) :
        Key(r[1], els[n]) \in closure /\ Key(els[n], r[2]) \in closure

\* The inner loop over c of "Find direct relations": isDirect
IsDirect(r, els, closure) ==
    ~\E n \in 1..Len(els) :
        /\ els[n] # r[1]
        /\ els[n] # r[2]
        /\ Key(r[1], els[n]) \in closure
        /\ Key(els[n], r[2]) \in closure

DirectRelations(poset, closure) ==
    SelectSeq(poset.relations, LAMBDA r : IsDirect(r, poset.elements, closure))

\* levels[element], undefined while the element has no entry
LevelOf(levels, element) ==
    IF element \in DOMAIN levels THEN levels[element] ELSE Undefined

SetLevel(levels, element, level) ==
    [e \in DOMAIN levels \cup {element} |-> IF e = element THEN level ELSE levels[e]]

\* computeLevel(element) with the visited set and the levels record it
\* updates: st = [visited, levels]; the result is [ret, st]
RECURSIVE computeLevel(_, _, _)
RECURSIVE LevelLoop(_, _, _, _, _)
LevelLoop(element, direct, n, maxLevel, st) ==
    IF n > Len(direct) THEN [maxLevel |-> maxLevel, st |-> st]
    ELSE IF direct[n][2] = element
         THEN LET sub == computeLevel(direct[n][1], direct, st)
              IN  LevelLoop(element, direct, n + 1,
                            MathMax(maxLevel, PlusOne(sub.ret)), sub.st)
         ELSE LevelLoop(element, direct, n + 1, maxLevel, st)

computeLevel(element, direct, st) ==
    IF element \in st.visited THEN [ret |-> LevelOf(st.levels, element), st |-> st]
    ELSE LET loop == LevelLoop(element, direct, 1, Num(0),
                               [st EXCEPT !.visited = @ \cup {element}])
         IN  [ret |-> loop.maxLevel,
              st |-> [loop.st EXCEPT !.levels = SetLevel(@, element, loop.maxLevel)]]

\* for (const element of elements) if (!visited.has(element)) computeLevel(element)
RECURSIVE AllLevels(_, _, _, _)
AllLevels(els, direct, n, st) ==
    IF n > Len(els) THEN st
    ELSE AllLevels(els, direct, n + 1,
                   IF els[n] \in st.visited THEN st
                   ELSE computeLevel(els[n], direct, st).st)

\* elements.map(id => ({id, level: levels[id]})): x and y are not set yet
Nodes(els, levels) ==
    [n \in 1..Len(els) |->
        [id |-> els[n], level |-> LevelOf(levels, els[n]), x |-> Undefined, y |-> Undefined]]

\* Variant with a slip: source and target swapped
EdgesSwapped(direct) ==
    [n \in 1..Len(direct) |-> [source |-> direct[n][2], target |-> direct[n][1]]]

\* directRelations.map(([source, target]) => ({source, target}))
Edges(direct) ==
    [n \in 1..Len(direct) |-> [source |-> direct[n][1], target |-> direct[n][2]]]

computeHasseDiagram(poset) ==
    LET direct == DirectRelations(poset, computeTransitiveClosure(poset))
        st == AllLevels(poset.elements, direct, 1, [visited |-> {}, levels |-> <<>>])
    IN  [nodes |-> Nodes(poset.elements, st.levels), edges |-> Edges(direct)]

----------------------------------------------------------------------------
(* Layout engine: computeLayout.                                           *)

\* Math.max(...nodes.map(n => n.level)): -Infinity for no node
RECURSIVE MaxOfLevels(_, _, _)
MaxOfLevels(nodes, n, acc) ==
    IF n > Len(nodes) THEN acc ELSE MaxOfLevels(nodes, n + 1, MathMax(acc, nodes[n].level))

\* nodes.filter(n => n.level === level)
NodesOfLevel(nodes, level) == SelectSeq(nodes, LAMBDA nd : StrictEq(nd.level, Num(level)))

\* Variant with a slip: x from the node's index in the whole list, not in its level
RECURSIVE PlaceLevelByNodeIndex(_, _, _, _, _)
PlaceLevelByNodeIndex(newNodes, levelNodes, i, startX, y) ==
    IF i >= Len(levelNodes) THEN newNodes
    ELSE LET nodeIndex == FindIndex(newNodes, levelNodes[i + 1].id)
         IN  PlaceLevelByNodeIndex(
                 IF nodeIndex # 0
                 THEN [newNodes EXCEPT ![nodeIndex] =
                           [@ EXCEPT !.x = Num(startX + (nodeIndex - 1) * 100), !.y = Num(y)]]
                 ELSE newNodes,
                 levelNodes, i + 1, startX, y)

\* levelNodes.forEach((node, i) => ...), i counted from 0
RECURSIVE PlaceLevel(_, _, _, _, _)
PlaceLevel(newNodes, levelNodes, i, startX, y) ==
    IF i >= Len(levelNodes) THEN newNodes
    ELSE LET nodeIndex == FindIndex(newNodes, levelNodes[i + 1].id)
         IN  PlaceLevel(IF nodeIndex # 0
                        THEN [newNodes EXCEPT ![nodeIndex] =
                                  [@ EXCEPT !.x = Num(startX + i * 100), !.y = Num(y)]]
                        ELSE newNodes,
                        levelNodes, i + 1, startX, y)

\* for (let level = 0; level <= maxLevel; level++) of the hierarchical branch
RECURSIVE Hierarchical(_, _, _, _, _)
Hierarchical(newNodes, nodes, level, maxLevel, lh) ==
    IF ~LessEq(Num(level), maxLevel) THEN newNodes
    ELSE LET levelNodes == NodesOfLevel(nodes, level)
             levelWidth == Len(levelNodes) * 100
             startX == ((0 - levelWidth) \div 2) + 50
         IN  Hierarchical(PlaceLevel(newNodes, levelNodes, 0, startX, level * lh),
                          nodes, level + 1, maxLevel, lh)

\* Variant with a slip: the new node is built without the spread of the old one
RECURSIVE CircularNoSpread(_, _, _)
CircularNoSpread(newNodes, nodes, i) ==
    IF i >= Len(nodes) THEN newNodes
    ELSE LET nodeIndex == FindIndex(newNodes, nodes[i + 1].id)
         IN  CircularNoSpread(
                 IF nodeIndex # 0
                 THEN [newNodes EXCEPT ![nodeIndex] =
                           [id |-> nodes[i + 1].id,
                            level |-> Undefined,
                            x |-> [k |-> "radius*cos(angle)", v |-> i],
                            y |-> [k |-> "radius*sin(angle)", v |-> i]]]
                 ELSE newNodes,
                 nodes, i + 1)

\* The circular branch: x = radius * cos(i * angleStep), y = radius * sin(i * angleStep)
\* with radius = max(20 * nodes.length, 150) and angleStep = 2 * pi / nodes.length.
\* The real values are kept symbolic: v is the index i of the angle.
RECURSIVE Circular(_, _, _)
Circular(newNodes, nodes, i) ==
    IF i >= Len(nodes) THEN newNodes
    ELSE LET nodeIndex == FindIndex(newNodes, nodes[i + 1].id)
         IN  Circular(IF nodeIndex # 0
                      THEN [newNodes EXCEPT ![nodeIndex] =
                                [@ EXCEPT !.x = [k |-> "radius*cos(angle)", v |-> i],
                                          !.y = [k |-> "radius*sin(angle)", v |-> i]]]
                      ELSE newNodes,
                      nodes, i + 1)

computeLayout(d, lt, lh) ==
    LET maxLevel == MaxOfLevels(d.nodes, 1, NegInfinity)
        newNodes == IF lt = "hierarchical" THEN Hierarchical(d.nodes, d.nodes, 0, maxLevel, lh)
                    ELSE IF lt = "circular" THEN Circular(d.nodes, d.nodes, 0)
                    ELSE d.nodes
    IN  [nodes |-> newNodes, edges |-> d.edges]

----------------------------------------------------------------------------
(* The drawing effect: useEffect on diagramData.  It runs after a render   *)
(* in which diagramData changed; the canvas element is mounted in that     *)
(* render.  layoutType is "hierarchical" in every state of the component   *)
(* (setLayoutType is never called), so a coordinate read here is an        *)
(* integer or undefined.  canvas records the size set, each moveTo/lineTo  *)
(* pair and each arc with the label written at its centre.                 *)

padding == 50

\* diagramData.nodes.find(n => n.id === id)
Find(nodes, id) ==
    IF FindIndex(nodes, id) = 0 THEN Null ELSE Some(nodes[FindIndex(nodes, id)])

\* node.x !== undefined && node.y !== undefined
Drawable(node) == node.x # Undefined /\ node.y # Undefined

\* Math.max(least, max - min + 2 * padding), min and max over the drawable
\* nodes: with none, max - min is -Infinity and the result is least
CanvasExtent(values, least) ==
    IF values = {} THEN least
    ELSE IF SetMax(values) - SetMin(values) + 2 * padding > least
    THEN SetMax(values) - SetMin(values) + 2 * padding
    ELSE least

\* The edges.forEach of the effect: the edges it strokes
StrokedEdges(d) ==
    SelectSeq(d.edges, LAMBDA edge :
        /\ Find(d.nodes, edge.source) # Null
        /\ Find(d.nodes, edge.target) # Null
        /\ Drawable(Get(Find(d.nodes, edge.source)))
        /\ Drawable(Get(Find(d.nodes, edge.target))))

Draw(d) ==
    LET drawable == SelectSeq(d.nodes, Drawable)
        width == CanvasExtent({drawable[n].x.v : n \in 1..Len(drawable)}, 600)
        height == CanvasExtent({drawable[n].y.v : n \in 1..Len(drawable)}, 400)
        translateX == width \div 2
        translateY == padding
        stroked == StrokedEdges(d)
    IN  [width |-> width,
         height |-> height,
         lines |-> [n \in 1..Len(stroked) |->
                       LET source == Get(Find(d.nodes, stroked[n].source))
                           target == Get(Find(d.nodes, stroked[n].target))
                       IN  [moveTo |-> <<source.x.v + translateX, source.y.v + translateY>>,
                            lineTo |-> <<target.x.v + translateX, target.y.v + translateY>>]],
         arcs |-> [n \in 1..Len(drawable) |->
                      [text |-> drawable[n].id,
                       x |-> drawable[n].x.v + translateX,
                       y |-> drawable[n].y.v + translateY]]]

----------------------------------------------------------------------------
(* Poset builder: parseInput.                                              *)

\* A message handed to setError: the fixed text and the interpolated value
Message(text, arg) == [text |-> text, arg |-> arg]

\* Whether rest matches \s*<sep>\s*(.+)$ : spaces, the separator, and at
\* least one more character
RestMatches(rest, sep) ==
    \E n \in 0..Len(rest) :
        /\ \A m \in 1..n : IsSpace(rest[m])
        /\ Len(rest) >= n + 2
        /\ rest[n + 1] = sep

\* trimmedLine.match(/^(.+?)\s*<sep>\s*(.+)$/): Null, or Some(<<a, b>>) with
\* a the shortest non-empty prefix after which the rest matches, and b what
\* follows the separator and the spaces after it (\s* is greedy, .+ keeps at
\* least one character)
Match(line, sep) ==
    LET ends == {p \in 1..Len(line) : RestMatches(SubSeq(line, p + 1, Len(line)), sep)}
    IN  IF ends = {} THEN Null
        ELSE LET p == SetMin(ends)
                 at == SetMin({q \in p + 1..Len(line) : line[q] = sep})
                 skip == {n \in 0..(Len(line) - at - 1) :
                              \A m \in 1..n : IsSpace(line[at + m])}
             IN  Some(<<SubSeq(line, 1, p), SubSeq(line, at + SetMax(skip) + 1, Len(line))>>)

\* Variant with a slip: the endpoints are not looked up in the element list
RECURSIVE ParseLinesUnchecked(_, _, _, _)
ParseLinesUnchecked(lines, n, parsedElements, acc) ==
    IF n > Len(lines) THEN [error |-> Null, relations |-> acc]
    ELSE LET trimmedLine == Trim(lines[n])
             lt == Match(trimmedLine, "<")
             comma == Match(trimmedLine, ",")
             match == IF lt # Null THEN lt ELSE comma
         IN  IF Len(trimmedLine) = 0
             THEN ParseLinesUnchecked(lines, n + 1, parsedElements, acc)
             ELSE IF match # Null
             THEN ParseLinesUnchecked(lines, n + 1, parsedElements,
                                      Append(acc, <<Trim(Get(match)[1]), Trim(Get(match)[2])>>))
             ELSE [error |-> Some(Message("Invalid relation format: \"${trimmedLine}\"",
                                          trimmedLine)),
                   relations |-> acc]

\* The body of "for (const line of relationLines)": Null on an accepted
\* line list (acc the relations), else the error that returns early
RECURSIVE ParseLines(_, _, _, _)
ParseLines(lines, n, parsedElements, acc) ==
    IF n > Len(lines) THEN [error |-> Null, relations |-> acc]
    ELSE LET trimmedLine == Trim(lines[n])
             lt == Match(trimmedLine, "<")
             comma == Match(trimmedLine, ",")
             match == IF lt # Null THEN lt ELSE comma
         IN  IF Len(trimmedLine) = 0 THEN ParseLines(lines, n + 1, parsedElements, acc)
             ELSE IF match # Null
             THEN LET a == Trim(Get(match)[1])
                      b == Trim(Get(match)[2])
                  IN  IF ~Includes(parsedElements, a) \/ ~Includes(parsedElements, b)
                      THEN [error |-> Some(Message(
                                "Relation \"${trimmedLine}\" contains elements not in the element list",
                                trimmedLine)),
                            relations |-> acc]
                      ELSE ParseLines(lines, n + 1, parsedElements, Append(acc, <<a, b>>))
             ELSE [error |-> Some(Message("Invalid relation format: \"${trimmedLine}\"",
                                          trimmedLine)),
                   relations |-> acc]

\* elements.split(",").map(e => e.trim()).filter(e => e.length > 0)
ParseElements(text) == SelectSeq(TrimAll(Split(text, ",")), NonEmpty)

\* parseInput(): [error |-> the argument of its last setError, posetData |-> its
\* return value]
parseInput(elementsText, relationsText) ==
    LET parsedElements == ParseElements(elementsText)
        parsed == ParseLines(Split(relationsText, "\n"), 1, parsedElements, <<>>)
    IN  IF Len(parsedElements) = 0
        THEN [error |-> Some(Message("Please enter at least one element", <<>>)),
              posetData |-> Null]
        ELSE IF parsed.error # Null THEN [error |-> parsed.error, posetData |-> Null]
        ELSE [error |-> Null,
              posetData |-> Some([elements |-> parsedElements, relations |-> parsed.relations])]

----------------------------------------------------------------------------
(* Poset builder: generateDivisibilityPoset.                               *)

Digits == <<"0", "1", "2", "3", "4", "5", "6", "7", "8", "9">>
IsDigit(c) == Includes(Digits, c)
DigitValue(c) == (CHOOSE n \in 1..10 : Digits[n] = c) - 1

RECURSIVE DigitsValue(_, _)
DigitsValue(s, acc) ==
    IF Len(s) = 0 THEN acc ELSE DigitsValue(Tail(s), 10 * acc + DigitValue(Head(s)))

\* Number.parseInt(s), radix 10: leading white space, an optional sign, then
\* the longest run of digits; NaN when there is no digit.  (A "0x" prefix
\* selects radix 16: no input of the model holds an x.)
ParseInt(s) ==
    LET ink == {n \in 1..Len(s) : ~IsSpace(s[n])}
        t == IF ink = {} THEN <<>> ELSE SubSeq(s, SetMin(ink), Len(s))
        signed == Len(t) > 0 /\ t[1] \in {"-", "+"}
        body == IF signed THEN Tail(t) ELSE t
        stop == {n \in 1..Len(body) : ~IsDigit(body[n])}
        run == IF stop = {} THEN body ELSE SubSeq(body, 1, SetMin(stop) - 1)
    IN  IF Len(run) = 0 THEN NaN
        ELSE Num((IF signed /\ t[1] = "-" THEN -1 ELSE 1) * DigitsValue(run, 0))

\* Number.prototype.toString() of a positive integer
RECURSIVE NumberToString(_)
NumberToString(n) ==
    IF n < 10 THEN <<Digits[n + 1]>> ELSE NumberToString(n \div 10) \o <<Digits[(n % 10) + 1]>>

\* isNaN(parsed) || parsed <= 0
InvalidNumber(parsed) == ~IsNum(parsed) \/ parsed.v <= 0

\* The .map(n => ...) over the trimmed, non-empty tokens: it throws at the
\* first invalid token
NumberTokens(text) == SelectSeq(TrimAll(Split(text, ",")), NonEmpty)
FirstInvalid(tokens) == {n \in 1..Len(tokens) : InvalidNumber(ParseInt(tokens[n]))}
ParsedNumbers(tokens) == [n \in 1..Len(tokens) |-> NumberToString(ParseInt(tokens[n]).v)]

\* Variant with a slip: the operands of % swapped
DivisibilityPairSwapped(numbers, i, j) ==
    i # j /\ ParseInt(numbers[i]).v % ParseInt(numbers[j]).v = 0

\* if (i !== j) { a = parseInt(numbers[i]); b = parseInt(numbers[j]);
\*                if (b % a === 0) relations.push([numbers[i], numbers[j]]) }
DivisibilityPair(numbers, i, j) ==
    i # j /\ ParseInt(numbers[j]).v % ParseInt(numbers[i]).v = 0

\* for (i...) for (j...) of "Generate relations based on divisibility"
RECURSIVE DivisibilityRelations(_, _, _, _)
DivisibilityRelations(numbers, i, j, acc) ==
    IF i > Len(numbers) THEN acc
    ELSE IF j > Len(numbers) THEN DivisibilityRelations(numbers, i + 1, 1, acc)
    ELSE DivisibilityRelations(numbers, i, j + 1,
             IF DivisibilityPair(numbers, i, j) THEN Append(acc, <<numbers[i], numbers[j]>>)
             ELSE acc)

\* relations.map(([a, b]) => `${a} < ${b}`).join("\n")
RelationsText(rels) ==
    Join([n \in 1..Len(rels) |-> rels[n][1] \o <<" ", "<", " ">> \o rels[n][2]], <<"\n">>)

\* elements.join(", ")
ElementsText(els) == Join(els, <<",", " ">>)

----------------------------------------------------------------------------
(* The component: its state after construction and its handlers.           *)

\* useState<PosetData[]>: the three bundled examples (never set again).  The
\* one character written "U+2205" is the empty-set sign of the second example.
examples ==
    << [elements |-> <<<<"a">>, <<"b">>, <<"c">>, <<"d">>, <<"e">>>>,
        relations |-> << <<<<"a">>, <<"b">>>>, <<<<"a">>, <<"c">>>>, <<<<"b">>, <<"d">>>>,
                         <<<<"c">>, <<"d">>>>, <<<<"c">>, <<"e">>>> >>],
       [elements |-> <<<<"U+2205">>, <<"{", "a", "}">>, <<"{", "b", "}">>,
                       <<"{", "a", ",", "b", "}">>>>,
        relations |-> << <<<<"U+2205">>, <<"{", "a", "}">>>>, <<<<"U+2205">>, <<"{", "b", "}">>>>,
                         <<<<"{", "a", "}">>, <<"{", "a", ",", "b", "}">>>>,
                         <<<<"{", "b", "}">>, <<"{", "a", ",", "b", "}">>>> >>],
       [elements |-> <<<<"1">>, <<"2">>, <<"3">>, <<"4">>, <<"6">>, <<"1", "2">>>>,
        relations |-> << <<<<"1">>, <<"2">>>>, <<<<"1">>, <<"3">>>>, <<<<"2">>, <<"4">>>>,
                         <<<<"2">>, <<"6">>>>, <<<<"3">>, <<"6">>>>,
                         <<<<"4">>, <<"1", "2">>>>, <<<<"6">>, <<"1", "2">>>> >>] >>

DefaultLevelHeight == 80

\* The useState initial values; no direct call of a core function is under way
Constructed ==
    /\ elements = <<>>
    /\ relations = <<>>
    /\ divisibilityNumbers = <<>>
    /\ diagramData = Null
    /\ error = Null
    /\ layoutType = "hierarchical"
    /\ levelHeight = DefaultLevelHeight
    /\ uncaught = FALSE
    /\ pc = "idle"
    /\ posetData = Null
    /\ transitiveClosure = Null
    /\ diagram = Null
    /\ reduced = Null
    /\ layouted = Null
    /\ canvas = Null
    /\ levelRun = Null

\* The message of the TypeError of adj[a].add(b) for an undefined adj[a]
TypeErrorMessage == <<"Cannot read properties of undefined (reading 'add')">>

\* Variant with a slip: a failed parse also clears the stored diagram
generateDiagramClearing ==
    LET parsed == parseInput(elements, relations)
    IN  /\ pc = "idle"
        /\ IF parsed.posetData = Null
           THEN /\ error' = parsed.error
                /\ diagramData' = Null
                /\ UNCHANGED <<posetData, canvas>>
           ELSE /\ diagramData' = Some(computeLayout(computeHasseDiagram(Get(parsed.posetData)),
                                                     layoutType, levelHeight))
                /\ canvas' = Some(Draw(Get(diagramData')))
                /\ error' = Null
                /\ posetData' = parsed.posetData
        /\ uncaught' = FALSE
        /\ UNCHANGED <<elements, relations, divisibilityNumbers, layoutType, levelHeight,
                       pc, transitiveClosure, diagram, reduced, layouted, levelRun>>

\* generateDiagram: parseInput, then computeHasseDiagram and computeLayout
\* inside try/catch.  posetData keeps the PosetData the handler built.
generateDiagram ==
    LET parsed == parseInput(elements, relations)
    IN  /\ pc = "idle"
        /\ IF parsed.posetData = Null
           THEN /\ error' = parsed.error
                /\ UNCHANGED <<diagramData, posetData, canvas>>
           ELSE IF ClosureThrows(Get(parsed.posetData))
           THEN /\ error' = Some(Message("Error generating diagram: ${err.message}",
                                         TypeErrorMessage))
                /\ posetData' = parsed.posetData
                /\ UNCHANGED <<diagramData, canvas>>
           ELSE /\ diagramData' = Some(computeLayout(computeHasseDiagram(Get(parsed.posetData)),
                                                     layoutType, levelHeight))
                /\ canvas' = Some(Draw(Get(diagramData')))
                /\ error' = Null
                /\ posetData' = parsed.posetData
        /\ uncaught' = FALSE
        /\ UNCHANGED <<elements, relations, divisibilityNumbers, layoutType, levelHeight,
                       pc, transitiveClosure, diagram, reduced, layouted, levelRun>>

\* generateDivisibilityPoset: the whole body is inside try/catch
generateDivisibilityPoset ==
    LET tokens == NumberTokens(divisibilityNumbers)
        invalid == FirstInvalid(tokens)
        numbers == ParsedNumbers(tokens)
        rels == DivisibilityRelations(numbers, 1, 1, <<>>)
        poset == [elements |-> numbers, relations |-> rels]
    IN  /\ pc = "idle"
        /\ IF invalid # {}
           THEN /\ error' = Some(Message(
                        "Error generating divisibility poset: Invalid number: ${n}. Only positive integers are allowed.",
                        tokens[SetMin(invalid)]))
                /\ UNCHANGED <<elements, relations, diagramData, posetData, canvas>>
           ELSE IF Len(numbers) = 0
           THEN /\ error' = Some(Message("Please enter at least one positive integer", <<>>))
                /\ UNCHANGED <<elements, relations, diagramData, posetData, canvas>>
           ELSE /\ elements' = ElementsText(numbers)
                /\ relations' = RelationsText(rels)
                /\ posetData' = Some(poset)
                /\ IF ClosureThrows(poset)
                   THEN /\ error' = Some(Message(
                                "Error generating divisibility poset: ${err.message}",
                                TypeErrorMessage))
                        /\ UNCHANGED <<diagramData, canvas>>
                   ELSE /\ diagramData' = Some(computeLayout(computeHasseDiagram(poset),
                                                             layoutType, levelHeight))
                        /\ canvas' = Some(Draw(Get(diagramData')))
                        /\ error' = Null
        /\ uncaught' = FALSE
        /\ UNCHANGED <<divisibilityNumbers, layoutType, levelHeight, pc, levelRun,
                       transitiveClosure,
                       diagram, reduced, layouted>>

\* loadExample(index), index 0..2 from the three buttons
loadExample(index) ==
    /\ pc = "idle"
    /\ elements' = ElementsText(examples[index + 1].elements)
    /\ relations' = RelationsText(examples[index + 1].relations)
    /\ uncaught' = FALSE
    /\ UNCHANGED <<divisibilityNumbers, diagramData, error, layoutType, levelHeight>>
    /\ UNCHANGED <<canvas, callVars>>

\* The Clear button: setElements(""); setRelations("")
clear ==
    /\ pc = "idle"
    /\ elements' = <<>>
    /\ relations' = <<>>
    /\ uncaught' = FALSE
    /\ UNCHANGED <<divisibilityNumbers, diagramData, error, layoutType, levelHeight>>
    /\ UNCHANGED <<canvas, callVars>>

\* example.elements.every(...) && example.relations.every(...)
IsSuperset(poset, example) ==
    /\ \A n \in 1..Len(example.elements) : Includes(poset.elements, example.elements[n])
    /\ \A n \in 1..Len(example.relations) : Includes(poset.relations, example.relations[n])

\* checkSuperset: parseInput, then setError of the three answers
checkSuperset ==
    LET parsed == parseInput(elements, relations)
    IN  /\ pc = "idle"
        /\ IF parsed.posetData = Null THEN error' = parsed.error
           ELSE error' = Some(Message(
                    "Example 1: ${r}\nExample 2: ${r}\nExample 3: ${r}",
                    [n \in 1..Len(examples) |->
                        IF IsSuperset(Get(parsed.posetData), examples[n]) THEN "Yes" ELSE "No"]))
        /\ uncaught' = FALSE
        /\ UNCHANGED <<elements, relations, divisibilityNumbers, diagramData, layoutType,
                       levelHeight>>
        /\ UNCHANGED <<canvas, callVars>>

\* onChange of the three input fields
setElements(text) ==
    /\ pc = "idle"
    /\ elements' = text
    /\ UNCHANGED <<relations, divisibilityNumbers, diagramData, error, layoutType,
                   levelHeight, uncaught>>
    /\ UNCHANGED <<canvas, callVars>>

setRelations(text) ==
    /\ pc = "idle"
    /\ relations' = text
    /\ UNCHANGED <<elements, divisibilityNumbers, diagramData, error, layoutType,
                   levelHeight, uncaught>>
    /\ UNCHANGED <<canvas, callVars>>

setDivisibilityNumbers(text) ==
    /\ pc = "idle"
    /\ divisibilityNumbers' = text
    /\ UNCHANGED <<elements, relations, diagramData, error, layoutType, levelHeight,
                   uncaught>>
    /\ UNCHANGED <<canvas, callVars>>

\* What the user types into the fields
TypedElements ==
    {<<"a", ",", "b">>,
     <<" ", ",", " ">>}
TypedRelations ==
    {<<"a", " ", "<", " ", "c">>,
     <<"a", ",", "b", "\n", "\n", "b", ",", "a">>,
     <<"a", " ", "b">>}
TypedNumbers ==
    {<<"1", ",", " ", "2", ",", " ", "4">>,
     <<"2", ",", "2">>,
     <<"6", ",", "x">>}

Init == Constructed

Next ==
    \/ \E text \in TypedElements : setElements(text)
    \/ \E text \in TypedRelations : setRelations(text)
    \/ \E text \in TypedNumbers : setDivisibilityNumbers(text)
    \/ generateDiagram
    \/ generateDivisibilityPoset
    \/ \E index \in 0..2 : loadExample(index)
    \/ clear
    \/ checkSuperset

Spec == Init /\ [][Next]_vars

----------------------------------------------------------------------------
(* Direct calls of the core functions on every poset of a bounded size.    *)
(* The ids are only compared and concatenated, so the element lists are    *)
(* taken up to renaming: the first occurrences of the ids follow IdPool.   *)

MaxElements == 3
MaxRelations == 3

IdPool == <<<<"a">>, <<"b">>, <<"c">>, <<"d">>, <<"e">>, <<"f">>>>

\* Lists of indices into IdPool in which every new index is the next unused one
IndexLists ==
    {s \in SeqsUpTo(1..Len(IdPool), MaxElements) :
        \A n \in 1..Len(s) : \A m \in 1..(s[n] - 1) : \E l \in 1..(n - 1) : s[l] = m}

ElementLists == {[n \in 1..Len(s) |-> IdPool[s[n]]] : s \in IndexLists}

\* The chains w < x < y < z over four elements, the three relations listed
\* in any order: the shortest input on which the order of the three loops of
\* the closure matters
FourChains ==
    LET els == SubSeq(IdPool, 1, 4)
    IN  {[elements |-> els, relations |-> rels] :
            rels \in {r \in [1..3 -> Range(els) \X Range(els)] :
                        \E w, x, y, z \in Range(els) :
                            /\ Cardinality({w, x, y, z}) = 4
                            /\ Range(r) = {<<w, x>>, <<x, y>>, <<y, z>>}}}

\* The forks w < x < z, y < z over four elements, the three relations listed
\* in any order: the smallest posets in which an element has two covering
\* predecessors on different levels
FourForks ==
    LET els == SubSeq(IdPool, 1, 4)
    IN  {[elements |-> els, relations |-> rels] :
            rels \in {r \in [1..3 -> Range(els) \X Range(els)] :
                        \E w, x, y, z \in Range(els) :
                            /\ Cardinality({w, x, y, z}) = 4
                            /\ Range(r) = {<<w, x>>, <<x, z>>, <<y, z>>}}}

LayoutTypes == {"hierarchical", "circular"}
LevelHeights == {DefaultLevelHeight}

\* The edges of a diagram as the relation list of a new poset
EdgeRelations(d) == [n \in 1..Len(d.edges) |-> <<d.edges[n].source, d.edges[n].target>>]

InitPosets ==
    /\ elements = <<>>
    /\ relations = <<>>
    /\ divisibilityNumbers = <<>>
    /\ diagramData = Null
    /\ error = Null
    /\ layoutType = "hierarchical"
    /\ levelHeight = DefaultLevelHeight
    /\ uncaught = FALSE
    /\ pc = "poset"
    /\ \/ \E els \in ElementLists : \E m \in 0..MaxRelations :
              \E rels \in [1..m -> Range(els) \X Range(els)] :
                 posetData = Some([elements |-> els, relations |-> rels])
       \/ \E p \in FourChains \cup FourForks : posetData = Some(p)
    /\ transitiveClosure = Null
    /\ diagram = Null
    /\ reduced = Null
    /\ layouted = Null
    /\ canvas = Null
    /\ levelRun = Null

\* A direct call is inside no try/catch: the TypeError of the closure escapes
CallHasseDiagram ==
    /\ pc = "poset"
    /\ IF ClosureThrows(Get(posetData))
       THEN uncaught' = TRUE /\ pc' = "thrown" /\ UNCHANGED diagram
       ELSE /\ diagram' = Some(computeHasseDiagram(Get(posetData)))
            /\ pc' = "diagram"
            /\ UNCHANGED uncaught
    /\ UNCHANGED <<levelRun, posetData, transitiveClosure, reduced, layouted, layoutType, levelHeight>>
    /\ UNCHANGED <<elements, relations, divisibilityNumbers, diagramData, error, canvas>>

\* computeHasseDiagram once more, the edges taken as the relations
CallHasseDiagramAgain ==
    /\ pc = "diagram"
    /\ reduced' = Some(computeHasseDiagram([elements |-> Get(posetData).elements,
                                            relations |-> EdgeRelations(Get(diagram))]))
    /\ pc' = "reduced"
    /\ UNCHANGED <<levelRun, posetData, transitiveClosure, diagram, layouted, layoutType, levelHeight>>
    /\ UNCHANGED uiVars

CallTransitiveClosure ==
    /\ pc = "reduced"
    /\ transitiveClosure' = Some(computeTransitiveClosure(Get(posetData)))
    /\ pc' = "closure"
    /\ UNCHANGED <<levelRun, posetData, diagram, reduced, layouted, layoutType, levelHeight>>
    /\ UNCHANGED uiVars

\* computeLayout under either layout type
CallLayout ==
    /\ pc = "diagram"
    /\ \E lt \in LayoutTypes, lh \in LevelHeights :
          /\ layoutType' = lt
          /\ levelHeight' = lh
          /\ layouted' = Some(computeLayout(Get(diagram), lt, lh))
    /\ pc' = "layout"
    /\ UNCHANGED <<levelRun, posetData, transitiveClosure, diagram, reduced>>
    /\ UNCHANGED uiVars

NextCore ==
    \/ CallHasseDiagram
    \/ CallHasseDiagramAgain
    \/ CallTransitiveClosure

SpecCore == InitPosets /\ [][NextCore]_vars

NextLayout ==
    \/ CallHasseDiagram
    \/ CallLayout

SpecLayout == InitPosets /\ [][NextLayout]_vars

----------------------------------------------------------------------------
(* The level computation of computeHasseDiagram step by step.  levelRun    *)
(* holds directRelations, levels and visited, the index next of the        *)
(* element the loop over the elements is at, and the stack of the          *)
(* computeLevel calls that passed the visited test: each frame has its     *)
(* element, its maxLevel and the index n of the relation its loop is at.   *)

\* Variant with a slip: the element is not marked when the call begins
VisitedAddLate(visited, element) == visited

\* visited.add(element)
VisitedAdd(visited, element) == visited \cup {element}

\* let maxLevel = 0, the loop over directRelations about to start
Frame(element) == [element |-> element, maxLevel |-> Num(0), n |-> 1]

Running == pc = "levels" /\ levelRun # Null
Top(run) == run.stack[Len(run.stack)]

\* computeHasseDiagram up to the definition of computeLevel
StartLevels ==
    /\ pc = "poset"
    /\ ~ClosureThrows(Get(posetData))
    /\ levelRun' = Some([directRelations |->
                             DirectRelations(Get(posetData),
                                             computeTransitiveClosure(Get(posetData))),
                         levels |-> <<>>,
                         visited |-> {},
                         next |-> 1,
                         stack |-> <<>>])
    /\ pc' = "levels"
    /\ UNCHANGED <<posetData, transitiveClosure, diagram, reduced, layouted, layoutType,
                   levelHeight>>
    /\ UNCHANGED uiVars

\* One round of "for (const element of elements)": computeLevel(element) is
\* called unless visited has the element
ForElement ==
    /\ Running
    /\ Get(levelRun).stack = <<>>
    /\ Get(levelRun).next <= Len(Get(posetData).elements)
    /\ LET run == Get(levelRun)
           element == Get(posetData).elements[run.next]
       IN  levelRun' = Some(IF element \in run.visited
                            THEN [run EXCEPT !.next = @ + 1]
                            ELSE [run EXCEPT !.next = @ + 1,
                                             !.visited = VisitedAdd(@, element),
                                             !.stack = <<Frame(element)>>])
    /\ UNCHANGED <<pc, posetData, transitiveClosure, diagram, reduced, layouted, layoutType,
                   levelHeight>>
    /\ UNCHANGED uiVars

\* One round of "for (const [a, b] of directRelations)" of the innermost
\* call: for b === element, computeLevel(a) returns levels[a] at once when
\* visited has a, and otherwise begins a new call
ForRelation ==
    /\ Running
    /\ Get(levelRun).stack # <<>>
    /\ Top(Get(levelRun)).n <= Len(Get(levelRun).directRelations)
    /\ LET run == Get(levelRun)
           top == Len(run.stack)
           a == run.directRelations[Top(run).n][1]
           b == run.directRelations[Top(run).n][2]
       IN  levelRun' = Some(
               IF b # Top(run).element
               THEN [run EXCEPT !.stack[top].n = @ + 1]
               ELSE IF a \in run.visited
               THEN [run EXCEPT !.stack[top].n = @ + 1,
                                !.stack[top].maxLevel =
                                    MathMax(@, PlusOne(LevelOf(run.levels, a)))]
               ELSE [run EXCEPT !.visited = VisitedAdd(@, a),
                                !.stack = Append(@, Frame(a))])
    /\ UNCHANGED <<pc, posetData, transitiveClosure, diagram, reduced, layouted, layoutType,
                   levelHeight>>
    /\ UNCHANGED uiVars

\* levels[element] = maxLevel; return maxLevel: the caller, if any, goes on
\* with maxLevel = Math.max(maxLevel, level + 1)
Return ==
    /\ Running
    /\ Get(levelRun).stack # <<>>
    /\ Top(Get(levelRun)).n > Len(Get(levelRun).directRelations)
    /\ LET run == Get(levelRun)
           top == Len(run.stack)
           level == Top(run).maxLevel
           rest == SubSeq(run.stack, 1, top - 1)
       IN  levelRun' = Some(
               [run EXCEPT !.levels = SetLevel(@, Top(run).element, level),
                           !.stack = IF rest = <<>> THEN rest
                                     ELSE [rest EXCEPT ![top - 1].n = @ + 1,
                                                       ![top - 1].maxLevel =
                                                           MathMax(@, PlusOne(level))]])
    /\ UNCHANGED <<pc, posetData, transitiveClosure, diagram, reduced, layouted, layoutType,
                   levelHeight>>
    /\ UNCHANGED uiVars

\* After the loop over the elements: nodes, edges, return
FinishLevels ==
    /\ Running
    /\ Get(levelRun).stack = <<>>
    /\ Get(levelRun).next > Len(Get(posetData).elements)
    /\ diagram' = Some([nodes |-> Nodes(Get(posetData).elements, Get(levelRun).levels),
                        edges |-> Edges(Get(levelRun).directRelations)])
    /\ pc' = "levelled"
    /\ UNCHANGED <<levelRun, posetData, transitiveClosure, reduced, layouted, layoutType,
                   levelHeight>>
    /\ UNCHANGED uiVars

NextLevels ==
    \/ StartLevels
    \/ ForElement
    \/ ForRelation
    \/ Return
    \/ FinishLevels

\* The function runs to completion once called: no step of it waits
SpecLevels == InitPosets /\ [][NextLevels]_vars /\ WF_vars(NextLevels)

----------------------------------------------------------------------------
(* Direct use of the builder on every input text of a bounded size.        *)

\* Nothing generated yet, as after construction
NothingGenerated ==
    /\ diagramData = Null
    /\ error = Null
    /\ layoutType = "hierarchical"
    /\ levelHeight = DefaultLevelHeight
    /\ uncaught = FALSE
    /\ posetData = Null
    /\ transitiveClosure = Null
    /\ diagram = Null
    /\ reduced = Null
    /\ layouted = Null
    /\ canvas = Null
    /\ levelRun = Null

MaxNumber == 6
MaxNumbers == 3

\* Tokens that are not the decimal numeral of a positive integer
OddTokens == {<<"0">>,
              <<"x">>,
              <<"-", "2">>,
              <<"0", "2">>,
              <<"2", "x">>,
              <<" ", "4">>}
NumberInputTokens == {NumberToString(n) : n \in 1..MaxNumber} \cup OddTokens

\* The list of the divisibility example of the specification
TwelveText == <<"1", ",", "2", ",", "3", ",", "4", ",", "6", ",", "1", "2">>

\* The Numbers field holds a comma-separated list of tokens
InitNumbers ==
    /\ elements = <<>>
    /\ relations = <<>>
    /\ pc = "idle"
    /\ NothingGenerated
    /\ \/ \E m \in 0..MaxNumbers : \E tokens \in [1..m -> NumberInputTokens] :
             divisibilityNumbers = Join(tokens, <<",">>)
       \/ divisibilityNumbers = TwelveText

SpecNumbers == InitNumbers /\ [][generateDivisibilityPoset]_vars

MaxTextLength == 4

ParseAlphabet == {"a", "b", "<", ",", " ", "\n"}
ParseElementTexts ==
    {<<"a", ",", "b">>,
     <<" ", "a", " ", ",", " ", "<">>,
     <<>>}

\* Longer inputs: the two of the specification's builder examples, two
\* relations on two lines, and a line both patterns could split
ParseExamples ==
    {<<<<"a", ",", "b">>, <<"a", " ", "<", " ", "c">>>>,
     <<<<>>, <<>>>>,
     <<<<"a", ",", "b">>, <<"a", " ", "<", " ", "b", "\n", "b", ",", "a">>>>,
     <<<<" ", "a", " ", ",", " ", "<">>, <<"a", " ", ",", " ", "<", "\n", "<", " ", "<", "a">>>>}

\* The Elements and Relations fields hold some text
InitTexts ==
    /\ divisibilityNumbers = <<>>
    /\ pc = "input"
    /\ NothingGenerated
    /\ \/ /\ elements \in ParseElementTexts
          /\ \E m \in 0..MaxTextLength : \E text \in [1..m -> ParseAlphabet] : relations = text
       \/ \E ex \in ParseExamples : elements = ex[1] /\ relations = ex[2]

\* A call of parseInput: its setError and its return value
CallParseInput ==
    LET parsed == parseInput(elements, relations)
    IN  /\ pc = "input"
        /\ error' = parsed.error
        /\ posetData' = parsed.posetData
        /\ pc' = "parsed"
        /\ UNCHANGED <<elements, relations, divisibilityNumbers, diagramData, uncaught,
                       layoutType, levelHeight, transitiveClosure, diagram, reduced, layouted,
                       canvas, levelRun>>

SpecParse == InitTexts /\ [][CallParseInput]_vars

----------------------------------------------------------------------------
(* The order a poset declares, stated without the code's algorithm.        *)

\* The smallest transitive relation containing R, by repeated composition
RECURSIVE TransitiveClosureOf(_)
TransitiveClosureOf(R) ==
    LET more == R \cup {<<pq[1][1], pq[2][2]>> : pq \in {x \in R \X R : x[1][2] = x[2][1]}}
    IN  IF more = R THEN R ELSE TransitiveClosureOf(more)

Below(poset) == TransitiveClosureOf(Range(poset.relations))

\* Some third element of els lies between a and b in the order below
Between(below, els, a, b) ==
    \E c \in els : c # a /\ c # b /\ <<a, c>> \in below /\ <<c, b>> \in below

EdgePairs(d) == {<<d.edges[n].source, d.edges[n].target>> : n \in 1..Len(d.edges)}

HasDiagram == diagram # Null

a1 == IdPool[1]
b2 == IdPool[2]
c3 == IdPool[3]

----------------------------------------------------------------------------
(* Claims on the closure and reduction engines, under SpecCore.            *)

\* C1: the edges of the diagram are exactly the input relations (a, b) with no
\* third element c such that (a, c) and (c, b) are in the transitive closure;
\* in particular a < b with nothing strictly between gives an edge a -> b.
C1_CoveringEdges ==
    HasDiagram =>
        LET poset == Get(posetData)
            below == Below(poset)
            els == Range(poset.elements)
            edges == EdgePairs(Get(diagram))
        IN  /\ edges = {r \in Range(poset.relations) : ~Between(below, els, r[1], r[2])}
            /\ \A r \in below : ~Between(below, els, r[1], r[2]) => r \in edges

\* C1 witness: a redundant pair was dropped and a covering pair kept
C1_Witness ==
    /\ HasDiagram
    /\ Get(posetData).relations = << <<a1, c3>>, <<a1, b2>>, <<b2, c3>> >>
    /\ EdgePairs(Get(diagram)) = {<<a1, b2>>, <<b2, c3>>}

\* C2: the set computeTransitiveClosure returns is the smallest transitive
\* relation containing the input pairs: transitive, containing every input
\* pair, holding no pair that no chain of input pairs implies; for the chain
\* a < b < c it is {(a,b), (b,c), (a,c)}, for no relation it is empty.
C2_SmallestTransitive ==
    transitiveClosure # Null =>
        LET poset == Get(posetData)
            closure == Get(transitiveClosure)
            els == Range(poset.elements)
            below == Below(poset)
        IN  /\ closure = {Key(r[1], r[2]) : r \in below}
            /\ \A x, y, z \in els :
                   Key(x, y) \in closure /\ Key(y, z) \in closure => Key(x, z) \in closure
            /\ \A r \in Range(poset.relations) : Key(r[1], r[2]) \in closure
            /\ poset.relations = << <<a1, b2>>, <<b2, c3>> >> =>
                   closure = {Key(a1, b2), Key(b2, c3), Key(a1, c3)}
            /\ poset.relations = <<>> => closure = {}

\* C2 witness: the closure of a four-element chain listed against the loop order
C2_Witness ==
    /\ pc = "closure"
    /\ Len(Get(posetData).elements) = 4
    /\ Cardinality(Get(transitiveClosure)) = 6

\* C3: running the reduction on its own edges gives the same edge set
C3_Idempotent ==
    reduced # Null => EdgePairs(Get(reduced)) = EdgePairs(Get(diagram))

\* C3 witness: a second reduction after a first one that dropped a pair
C3_Witness ==
    /\ reduced # Null
    /\ Len(Get(diagram).edges) = 2
    /\ Len(Get(posetData).relations) = 3
    /\ Get(reduced).edges = Get(diagram).edges

\* The diagram's edges form no cycle (no self-loop either)
AcyclicEdges(d) == \A r \in TransitiveClosureOf(EdgePairs(d)) : r[1] # r[2]

\* level(b) >= level(a) + 1, which is false of a level that is NaN
LevelsIncrease(d) ==
    \A n \in 1..Len(d.edges) : \A i, j \in 1..Len(d.nodes) :
        d.nodes[i].id = d.edges[n].source /\ d.nodes[j].id = d.edges[n].target
            => /\ IsNum(d.nodes[i].level)
               /\ IsNum(d.nodes[j].level)
               /\ d.nodes[j].level.v >= d.nodes[i].level.v + 1

\* Every element with no incoming edge has level 0
MinimalAtZero(d) ==
    \A i \in 1..Len(d.nodes) :
        (\A n \in 1..Len(d.edges) : d.edges[n].target # d.nodes[i].id)
            => d.nodes[i].level = Num(0)

\* C4 as claimed: in the diagram of any poset the builder can produce, every
\* edge (a, b) has level(b) >= level(a) + 1 and every element with no
\* incoming edge has level 0.
C4_AsClaimed ==
    HasDiagram /\ Len(Get(posetData).elements) > 0 =>
        LevelsIncrease(Get(diagram)) /\ MinimalAtZero(Get(diagram))

\* C4 amended: the same for every such poset whose covering edges form no
\* cycle; with or without a cycle, an element with no incoming edge has level 0.
C4_LevelMonotone ==
    HasDiagram /\ Len(Get(posetData).elements) > 0 =>
        /\ AcyclicEdges(Get(diagram)) => LevelsIncrease(Get(diagram))
        /\ MinimalAtZero(Get(diagram))

\* C4 witness: a chain of two covering edges, levels 0, 1, 2
C4_Witness ==
    /\ HasDiagram
    /\ Get(posetData).relations = << <<b2, c3>>, <<a1, b2>> >>
    /\ Get(diagram).nodes[3].level = Num(2)
    /\ AcyclicEdges(Get(diagram))

----------------------------------------------------------------------------
(* Claims on the layout engine, under SpecLayout.                          *)

EmptyDiagram == [nodes |-> <<>>, edges |-> <<>>]

\* C9: for a poset with no element computeHasseDiagram returns empty node and
\* edge lists, and computeLayout of that diagram, in either mode, returns an
\* empty diagram; neither call throws.
C9_EmptyPoset ==
    Get(posetData).elements = <<>> =>
        /\ uncaught = FALSE
        /\ pc # "thrown"
        /\ pc # "poset" => diagram = Some(EmptyDiagram)
        /\ pc = "layout" => layouted = Some(EmptyDiagram)

\* C9 witness: the circular layout of the empty diagram has been computed
C9_Witness ==
    /\ Get(posetData).elements = <<>>
    /\ pc = "layout"
    /\ layoutType = "circular"
    /\ layouted = Some(EmptyDiagram)

UniqueIds(d) == \A m, n \in 1..Len(d.nodes) : d.nodes[m].id = d.nodes[n].id => m = n
IntegerLevels(d) == \A n \in 1..Len(d.nodes) : IsNum(d.nodes[n].level)

\* The nodes on the level of node n, and those of them listed before n
SameLevel(d, n) == {m \in 1..Len(d.nodes) : d.nodes[m].level = d.nodes[n].level}
EarlierOnLevel(d, n) == {m \in SameLevel(d, n) : m < n}

\* C10: in hierarchical mode, with unique ids and integer levels, the i-th
\* node (from 0, in input order) of a level of n nodes gets
\* x = -50n + 50 + 100i and y = level * levelHeight; three nodes on a single
\* level get x = -100, 0, 100 in input order.
C10_HierarchicalCoordinates ==
    layouted # Null /\ layoutType = "hierarchical" =>
        LET d == Get(diagram)
            out == Get(layouted).nodes
        IN  UniqueIds(d) /\ IntegerLevels(d) =>
                /\ \A n \in 1..Len(d.nodes) :
                       /\ out[n].x = Num(-50 * Cardinality(SameLevel(d, n)) + 50
                                         + 100 * Cardinality(EarlierOnLevel(d, n)))
                       /\ out[n].y = Num(d.nodes[n].level.v * levelHeight)
                /\ Len(d.nodes) = 3 /\ SameLevel(d, 1) = {1, 2, 3} =>
                       <<out[1].x, out[2].x, out[3].x>> = <<Num(-100), Num(0), Num(100)>>

\* C10 witness: a laid-out diagram with two nodes on level 0 and one above
C10_Witness ==
    /\ layouted # Null
    /\ layoutType = "hierarchical"
    /\ Get(posetData) = [elements |-> <<a1, b2, c3>>, relations |-> << <<a1, c3>> >>]
    /\ Get(layouted).nodes[2].x = Num(50)
    /\ Get(layouted).nodes[3].y = Num(levelHeight)

----------------------------------------------------------------------------
(* The divisibility builder.                                               *)

\* The integers the tokens of the Numbers field denote, in list order
ListedValues == [n \in 1..Len(NumberTokens(divisibilityNumbers)) |->
                    ParseInt(NumberTokens(divisibilityNumbers)[n])]

\* Every token denotes a positive integer
PositiveIntegers == \A n \in DOMAIN ListedValues : IsNum(ListedValues[n]) /\ ListedValues[n].v > 0

DistinctIntegers ==
    \A m, n \in DOMAIN ListedValues : m # n => ListedValues[m].v # ListedValues[n].v

Listed == {ListedValues[n].v : n \in DOMAIN ListedValues}

\* a divides b
Divides(a, b) == \E q \in 1..b : a * q = b

\* The pairs of decimal numerals of the covering pairs of divisibility on S
CoveringDivisors(S) ==
    {<<NumberToString(a), NumberToString(b)>> : <<a, b>> \in
        {p \in S \X S : /\ p[1] # p[2]
                        /\ Divides(p[1], p[2])
                        /\ ~\E c \in S \ {p[1], p[2]} : Divides(p[1], c) /\ Divides(c, p[2])}}

TwelveEdges ==
    {<<NumberToString(p[1]), NumberToString(p[2])>> :
        p \in {<<1, 2>>, <<1, 3>>, <<2, 4>>, <<2, 6>>, <<3, 6>>, <<4, 12>>, <<6, 12>>}}

\* generateDivisibilityPoset has run on the Numbers field
NumbersGenerated == diagramData # Null \/ error # Null

\* C5: for a non-empty list of distinct positive integers the generated
\* diagram's edges are exactly the pairs (a, b) of listed numbers with a # b,
\* a dividing b and no other listed c with a | c and c | b; for 1,2,3,4,6,12
\* they are (1,2), (1,3), (2,4), (2,6), (3,6), (4,12), (6,12)
C5_DivisibilityEdges ==
    NumbersGenerated =>
        /\ (Len(ListedValues) > 0 /\ PositiveIntegers /\ DistinctIntegers)
              => /\ diagramData # Null
                 /\ EdgePairs(Get(diagramData)) = CoveringDivisors(Listed)
        /\ divisibilityNumbers = TwelveText
              => /\ diagramData # Null
                 /\ EdgePairs(Get(diagramData)) = TwelveEdges

\* C5 witness: the diagram of 1,2,3,4,6,12 with its seven edges
C5_Witness ==
    /\ divisibilityNumbers = TwelveText
    /\ diagramData # Null
    /\ Len(Get(diagramData).edges) = 7
    /\ <<NumberToString(1), NumberToString(12)>> \in Range(Get(posetData).relations)

\* C6 as claimed: for every accepted list of positive-integer tokens, repeated
\* numbers included, the generated relations are exactly the ordered pairs
\* (a, b) of listed numbers with a # b and b mod a = 0, and none has a = b
C6_AsClaimed ==
    (NumbersGenerated /\ diagramData # Null) =>
        /\ Range(Get(posetData).relations) =
              {<<NumberToString(p[1]), NumberToString(p[2])>> :
                  p \in {q \in Listed \X Listed : q[1] # q[2] /\ q[2] % q[1] = 0}}
        /\ \A n \in DOMAIN Get(posetData).relations :
              Get(posetData).relations[n][1] # Get(posetData).relations[n][2]

----------------------------------------------------------------------------
(* parseInput.                                                             *)

\* The trimmed non-blank lines of the Relations text
RelationLines(text) == SelectSeq(TrimAll(Split(text, "\n")), NonEmpty)

\* The line reads "A < B" or "A,B" with something for A and for B
HasForm(line) ==
    \E q \in 1..Len(line) :
        /\ line[q] \in {"<", ","}
        /\ Trim(SubSeq(line, 1, q - 1)) # <<>>
        /\ Trim(SubSeq(line, q + 1, Len(line))) # <<>>

\* The endpoints the two patterns take from a line, "<" tried first
Endpoints(line) ==
    LET match == IF Match(line, "<") # Null THEN Match(line, "<") ELSE Match(line, ",")
    IN  IF match = Null THEN {} ELSE {Trim(Get(match)[1]), Trim(Get(match)[2])}

\* The three conditions under which a Poset is returned
Accepted(elementsText, relationsText) ==
    LET declared == Range(ParseElements(elementsText))
        lines == RelationLines(relationsText)
    IN  /\ declared # {}
        /\ \A n \in 1..Len(lines) : HasForm(lines[n]) /\ Endpoints(lines[n]) \subseteq declared

\* C7: parseInput returns a Poset exactly when the element list is non-empty,
\* every non-blank line has the form "A < B" or "A,B" and the endpoints of every
\* parsed relation are declared; otherwise it returns none and reports an error
\* (as for ("a,b", "a < c") and ("", "")); a returned Poset has every relation
\* endpoint in its element list
C7_ParseInput ==
    pc = "parsed" =>
        /\ posetData # Null <=> Accepted(elements, relations)
        /\ posetData = Null => error # Null
        /\ posetData # Null =>
              \A n \in DOMAIN Get(posetData).relations :
                  /\ Get(posetData).relations[n][1] \in Range(Get(posetData).elements)
                  /\ Get(posetData).relations[n][2] \in Range(Get(posetData).elements)
        /\ (elements = <<"a", ",", "b">> /\ relations = <<"a", " ", "<", " ", "c">>)
              => /\ posetData = Null
                 /\ error = Some(Message(
                        "Relation \"${trimmedLine}\" contains elements not in the element list",
                        relations))
        /\ (elements = <<>> /\ relations = <<>>)
              => /\ posetData = Null
                 /\ error = Some(Message("Please enter at least one element", <<>>))

\* C7 witness: two relations on two lines, one in each form, were accepted
C7_Witness ==
    /\ pc = "parsed"
    /\ relations = <<"a", " ", "<", " ", "b", "\n", "b", ",", "a">>
    /\ posetData = Some([elements |-> << <<"a">>, <<"b">> >>,
                         relations |-> << << <<"a">>, <<"b">> >>, << <<"b">>, <<"a">> >> >>])
    /\ error = Null

----------------------------------------------------------------------------
(* The two generating handlers.                                            *)

\* What an invocation leaves behind: without a validation error the diagram of
\* the poset and no error, with one an error and the diagram stored before
Outcome(valid, poset) ==
    /\ uncaught' = FALSE
    /\ IF valid
       THEN /\ diagramData' = Some(computeLayout(computeHasseDiagram(poset),
                                                 layoutType, levelHeight))
            /\ error' = Null
       ELSE /\ error' # Null
            /\ diagramData' = diagramData

GeneralPoset == Get(parseInput(elements, relations).posetData)

DivisibilityPoset ==
    [elements |-> [n \in DOMAIN ListedValues |-> NumberToString(ListedValues[n].v)],
     relations |-> DivisibilityRelations(
                       [n \in DOMAIN ListedValues |-> NumberToString(ListedValues[n].v)],
                       1, 1, <<>>)]

\* C8: an invocation of generateDiagram or generateDivisibilityPoset that hits
\* a validation error sets a non-null error, lets no exception escape and
\* leaves diagramData as it was; one that succeeds stores the newly computed
\* diagram and sets error to null
C8_HandlerOutcome ==
    [][/\ generateDiagram => Outcome(Accepted(elements, relations), GeneralPoset)
       /\ generateDivisibilityPoset =>
              Outcome(Len(ListedValues) > 0 /\ PositiveIntegers, DivisibilityPoset)]_vars

\* C8 witness: a diagram stored by an earlier invocation is still there after
\* an invocation that reported an invalid number
C8_Witness ==
    /\ diagramData # Null
    /\ error # Null
    /\ Get(error).text =
          "Error generating divisibility poset: Invalid number: ${n}. Only positive integers are allowed."
    /\ uncaught = FALSE

----------------------------------------------------------------------------
(* Coordinates after the hierarchical layout.                              *)

\* A poset parseInput can return: at least one element (the endpoints of the
\* relations are elements in every poset considered here)
BuilderPoset == posetData # Null /\ Len(Get(posetData).elements) > 0

HierarchicalLayout == pc = "layout" /\ layoutType = "hierarchical"

HasXY(node) == IsNum(node.x) /\ IsNum(node.y)
NoXY(node) == node.x = Undefined /\ node.y = Undefined

\* C11 as claimed: for every poset the builder accepts, after
\* computeHasseDiagram and the hierarchical computeLayout every node of the
\* returned diagram has both x and y defined
C11_AsClaimed ==
    HierarchicalLayout /\ BuilderPoset =>
        \A n \in 1..Len(Get(layouted).nodes) : HasXY(Get(layouted).nodes[n])

\* C11 amended: every node has x and y when the covering edges form no cycle
\* and the element ids are distinct; with a cycle no node has either; with no
\* cycle and a repeated id exactly the first node of each id has them
C11_CoordinatesFilled ==
    HierarchicalLayout /\ BuilderPoset =>
        LET d == Get(diagram)
            out == Get(layouted).nodes
        IN  /\ AcyclicEdges(d) /\ UniqueIds(d) => \A n \in 1..Len(out) : HasXY(out[n])
            /\ ~AcyclicEdges(d) => \A n \in 1..Len(out) : NoXY(out[n])
            /\ AcyclicEdges(d) =>
                  \A n \in 1..Len(out) :
                      IF \E m \in 1..(n - 1) : out[m].id = out[n].id
                      THEN NoXY(out[n]) ELSE HasXY(out[n])

\* C11 witness: the three nodes of a chain placed on three levels
C11_Witness ==
    /\ HierarchicalLayout
    /\ Get(posetData) = [elements |-> <<a1, b2, c3>>,
                         relations |-> << <<a1, b2>>, <<b2, c3>> >>]
    /\ \A n \in 1..3 : Get(layouted).nodes[n].x = Num(0)
    /\ Get(layouted).nodes[3].y = Num(2 * levelHeight)

----------------------------------------------------------------------------
(* Where the diagram is drawn.                                             *)

\* C12 as claimed: for every edge (a, b) of a hierarchically laid-out
\* diagram with positive levelHeight, a is drawn below b: the canvas y used
\* for a (the moveTo end of the edge's line) is greater than the one used
\* for b (the lineTo end), canvas y growing downward
C12_AsClaimed ==
    (canvas # Null /\ layoutType = "hierarchical" /\ levelHeight > 0) =>
        /\ Len(Get(canvas).lines) = Len(StrokedEdges(Get(diagramData)))
        /\ \A n \in 1..Len(Get(canvas).lines) :
              Get(canvas).lines[n].moveTo[2] > Get(canvas).lines[n].lineTo[2]

----------------------------------------------------------------------------
(* Nodes and edges of the returned diagram.                                *)

\* C13 as claimed: the diagram has exactly one node per element, in element
\* order, and one edge per retained covering relation: no two edges share
\* their (source, target) pair, duplicate input pairs notwithstanding
C13_AsClaimed ==
    HasDiagram =>
        LET d == Get(diagram)
            els == Get(posetData).elements
        IN  /\ Len(d.nodes) = Len(els)
            /\ \A n \in 1..Len(els) : d.nodes[n].id = els[n]
            /\ \A m, n \in 1..Len(d.edges) :
                  (d.edges[m].source = d.edges[n].source
                      /\ d.edges[m].target = d.edges[n].target) => m = n

----------------------------------------------------------------------------
(* Levels.                                                                 *)

d4 == IdPool[4]

\* The length of the longest chain of edges of E that ends at e (E acyclic)
RECURSIVE LongestChainTo(_, _)
LongestChainTo(e, E) ==
    IF \A r \in E : r[2] # e THEN 0
    ELSE 1 + SetMax({LongestChainTo(r[1], E) : r \in {q \in E : q[2] = e}})

\* C14: when the covering edges form no cycle, the level of each element e is
\* 0 if no covering edge (x, e) exists and otherwise 1 + the greatest level of
\* such an x: the length of the longest chain of covering edges ending at e,
\* whatever the order in which elements and relations are listed
C14_LongestChain ==
    HasDiagram /\ AcyclicEdges(Get(diagram)) =>
        LET d == Get(diagram)
            E == EdgePairs(d)
        IN  \A n \in 1..Len(d.nodes) :
                /\ d.nodes[n].level = Num(LongestChainTo(d.nodes[n].id, E))
                /\ (\A r \in E : r[2] # d.nodes[n].id) => d.nodes[n].level = Num(0)
                /\ (\E r \in E : r[2] = d.nodes[n].id) =>
                      \E r \in E :
                          /\ r[2] = d.nodes[n].id
                          /\ \E m \in 1..Len(d.nodes) :
                                /\ d.nodes[m].id = r[1]
                                /\ d.nodes[n].level = PlusOne(d.nodes[m].level)
                                /\ \A q \in E : \A k \in 1..Len(d.nodes) :
                                      (q[2] = d.nodes[n].id /\ d.nodes[k].id = q[1])
                                          => d.nodes[k].level.v <= d.nodes[m].level.v

\* C14 witness: in a fork the element with predecessors on levels 1 and 0,
\* the higher one listed first, has level 2
C14_Witness ==
    /\ HasDiagram
    /\ Get(posetData) = [elements |-> <<a1, b2, c3, d4>>,
                         relations |-> << <<a1, b2>>, <<b2, d4>>, <<c3, d4>> >>]
    /\ Get(diagram).nodes[3].level = Num(0)
    /\ Get(diagram).nodes[4].level = Num(2)

----------------------------------------------------------------------------
(* Termination of the level computation.                                   *)

\* The covering pairs of a poset: its relations with nothing between
CoveringPairs(poset) ==
    {r \in Range(poset.relations) :
        ~Between(Below(poset), Range(poset.elements), r[1], r[2])}

Cyclic(E) == \E r \in TransitiveClosureOf(E) : r[1] = r[2]
OnCycle(e, E) == <<e, e>> \in TransitiveClosureOf(E)

\* C15 as claimed: when the covering edges of the input contain a cycle, the
\* recursion of computeLevel descends without bound and no diagram is returned
C15_AsClaimed ==
    Cyclic(CoveringPairs(Get(posetData))) => pc # "levelled"

\* The stack of computeLevel calls is never deeper than the number of
\* distinct elements
BoundedDescent ==
    levelRun # Null =>
        Len(Get(levelRun).stack) <= Cardinality(Range(Get(posetData).elements))

\* What is returned is what computeHasseDiagram is defined to return, with
\* level NaN for every element on a cycle of covering edges
ReturnedDiagram ==
    pc = "levelled" =>
        /\ diagram = Some(computeHasseDiagram(Get(posetData)))
        /\ \A n \in 1..Len(Get(diagram).nodes) :
              OnCycle(Get(diagram).nodes[n].id, EdgePairs(Get(diagram)))
                  => Get(diagram).nodes[n].level = NaN

\* C15 amended: with or without a cycle in the covering edges the level
\* assignment terminates and a diagram is returned: an element is marked
\* visited before its predecessors are, so the recursion is never deeper than
\* the number of distinct elements; the elements on a cycle get level NaN
C15_Terminates ==
    /\ [](BoundedDescent /\ ReturnedDiagram)
    /\ (pc = "poset") ~> (pc = "levelled")

\* C15 witness: the diagram of a < b, b < a has been returned, both levels NaN
C15_Witness ==
    /\ pc = "levelled"
    /\ Get(posetData) = [elements |-> <<a1, b2>>,
                         relations |-> << <<a1, b2>>, <<b2, a1>> >>]
    /\ Get(diagram).nodes[1].level = NaN
    /\ Get(diagram).nodes[2].level = NaN
    /\ Len(Get(diagram).edges) = 2

----------------------------------------------------------------------------
(* What computeLayout leaves as it was.                                    *)

\* C16: in both layout modes the diagram computeLayout returns has the same
\* nodes in the same order with the same id and level, and the same edge
\* list, as its input, and the nodes of the input are as they were: no x or
\* y has been written into them
C16_OnlyCoordinates ==
    pc = "layout" =>
        LET d == Get(diagram)
            out == Get(layouted)
        IN  /\ Len(out.nodes) = Len(d.nodes)
            /\ \A n \in 1..Len(d.nodes) :
                  /\ out.nodes[n].id = d.nodes[n].id
                  /\ out.nodes[n].level = d.nodes[n].level
                  /\ NoXY(d.nodes[n])
            /\ out.edges = d.edges
            /\ d = computeHasseDiagram(Get(posetData))

\* C16 witness: a circular layout that wrote coordinates into the copy of a
\* two-node diagram with one edge
C16_Witness ==
    /\ pc = "layout"
    /\ layoutType = "circular"
    /\ Get(posetData) = [elements |-> <<a1, b2>>, relations |-> << <<a1, b2>> >>]
    /\ Get(layouted).nodes[2].level = Num(1)
    /\ Get(layouted).nodes[2].x # Undefined
    /\ Get(diagram).nodes[2].x = Undefined
    /\ Len(Get(layouted).edges) = 1

----------------------------------------------------------------------------
(* The bundled examples.                                                   *)

\* The fields hold what loadExample(index) writes into them
ExampleLoaded(index) ==
    /\ elements = ElementsText(examples[index + 1].elements)
    /\ relations = RelationsText(examples[index + 1].relations)

\* C17 as claimed: for each of the three examples, parseInput after
\* loadExample(i) yields the poset examples[i], so generateDiagram right
\* after loadExample(i) succeeds without an error
C17_AsClaimed ==
    [][\A index \in 0..(Len(examples) - 1) :
          (generateDiagram /\ ExampleLoaded(index)) =>
              /\ posetData' = Some(examples[index + 1])
              /\ error' = Null
              /\ diagramData' # Null]_vars

====
